---- MODULE Spec2Model ----
(***************************************************************************)
(* A model of the loading cache of src/cache.go: the single-shard engine   *)
(* (genericCache), the shard router (shardedCache), the background sweeper *)
(* (runBackgroundEvict) and the removal-listener fan-out of evict.         *)
(*                                                                         *)
(* Time is the integer clock of CacheOptions.Clock; durations are in the   *)
(* same unit.  A call of a caller goroutine is cut into steps at every     *)
(* point where another goroutine can interleave: taking dataLock, the      *)
(* unlocked expiry check and lastRead write of Get, the loader call, each  *)
(* visit of a range loop, and each listener fan-out (listenerWg.Wait).     *)
(* The read section of Get (RLock .. RUnlock) only reads, so it is one     *)
(* step that needs no writer to hold dataLock.                             *)
(*                                                                         *)
(* The write entry.lastRead = Now() of Get is not synchronised with the    *)
(* reads of isExpired.  With whole clock units a racing read sees the old  *)
(* or the new time, which the interleaving of GetTouch with the reading    *)
(* step produces.                                                          *)
(***************************************************************************)
EXTENDS Integers, Sequences, FiniteSets, TLC

\* Caller goroutines, the keys and values they use, what the loader may
\* return, and the removal listeners that may be registered.
Procs == {"p1", "p2"}
AllKeys == {"a", "b", "c"}
Values == {"v1", "v2"}
LoadValues == {"w1", "w2"}
Listeners == {"l1", "l2"}

\* Bounds of the model: the clock stops at MaxClock, and the callers make at
\* most MaxCalls calls in all (RaceCalls where a Get that saw an expired entry
\* races with a Put and a later Get reads the key).
MaxClock == 2
MaxCalls == 3
RaceCalls == 4

NoVal == "none"
Sweeper == "sweeper"
Free == "free"

\* Entry pointers (*cacheEntry).  An entry never changes its key, so a
\* pointer is a key and a slot; slot 0 is no entry.  A key has one entry in
\* its map and every caller can hold a pointer to a removed one.
Slots == 1..(1 + Cardinality(Procs))

NullEntry == [value |-> NoVal, lastRead |-> 0, lastWrite |-> 0]

NoFan == [key |-> NoVal, value |-> NoVal, reason |-> NoVal, by |-> NoVal, pending |-> {}]

NoLoc ==
  [op |-> NoVal, key |-> NoVal, keys |-> <<>>, val |-> NoVal, entry |-> 0,
   toReturn |-> NoVal, todo |-> {}, shard |-> 0]

NoPut == [val |-> NoVal, at |-> 0, live |-> FALSE]

\* The last return of a call: who, what, and the call's history.
NoRet ==
  [proc |-> NoVal, op |-> NoVal, key |-> NoVal, val |-> NoVal, err |-> NoVal,
   expect |-> NoPut, clean |-> FALSE, miss |-> FALSE, absent |-> FALSE, start |-> 0,
   got |-> {}, held |-> NoVal, replaced |-> NoVal, watch |-> {}]

NoEra == [calls |-> 0, succ |-> 0, val |-> NoVal]

ZeroStats == [hits |-> 0, misses |-> 0, evictions |-> 0, loadSuccess |-> 0, loadError |-> 0]

VARIABLES
  cfg,     \* CacheOptions, and the keys and values the callers use
  clock,   \* Clock.Now()
  data,    \* data[s][k]: the slot of the entry of key k in shard s, 0 if none
  heap,    \* heap[k][i]: the cacheEntry of key k in slot i
  lock,    \* lock[s]: who holds dataLock of shard s for writing
  fan,     \* fan[s]: the notification being fanned out and the listeners still to return
  stats,   \* stats[s]: the counters of shard s
  done,    \* done[s]: whether the done channel of shard s is closed
  ticker,  \* ticker[s]: whether a tick waits in ticker.C of shard s
  sw,      \* sw[s]: the background goroutine of shard s
  pc,      \* pc[p]: where caller p stands
  loc,     \* loc[p]: the locals of caller p's call
  ret,     \* what the call that returned in the last step returned
  ops,     \* calls started so far
  panic,   \* why the process aborted, NoVal while it runs
  obs      \* history of the run, read by the properties only

vars ==
  <<cfg, clock, data, heap, lock, fan, stats, done, ticker, sw, pc, loc, ret, ops, panic, obs>>

----------------------------------------------------------------------------
\* Pure helpers

\* Go's % : the remainder has the sign of the dividend.
GoRem(a, n) == IF a >= 0 THEN a % n ELSE -((-a) % n)

\* New: ShardCount 0 and 1 build one genericCache, more build a router.
NumShards(c) == IF c.ShardCount <= 1 THEN 1 ELSE c.ShardCount

Shards == 0..(NumShards(cfg) - 1)

Sharded == cfg.ShardCount > 1

\* A faulty variant of ShardIndex: every key goes to the first shard.
ShardIndexFirst(key) == 0

\* s.HashCodeFunc(key) % len(s.shards); a single engine has index 0.
ShardIndex(key) == IF Sharded THEN GoRem(cfg.HashCodeFunc[key], cfg.ShardCount) ELSE 0

expiresAfterRead == cfg.ExpireAfterRead > 0

expiresAfterWrite == cfg.ExpireAfterWrite > 0

\* lastRead.Add(ExpireAfterRead).Before(now) or lastWrite.Add(ExpireAfterWrite).Before(now)
isExpired(entry, now) ==
  \/ expiresAfterRead /\ entry.lastRead + cfg.ExpireAfterRead < now
  \/ expiresAfterWrite /\ entry.lastWrite + cfg.ExpireAfterWrite < now

Present(d, s) == {k \in AllKeys : d[s][k] # 0}

\* The slots of key k still reachable: from a map, or from a caller's local `entry`.
Refs(k, d, l) ==
  {d[s][k] : s \in DOMAIN d} \cup {l[p].entry : p \in {q \in Procs : l[q].key = k}}

\* Unreachable entries are garbage; their slots are cleared for reuse.
Collect(h, d, l) ==
  [k \in AllKeys |-> [i \in Slots |-> IF i \in Refs(k, d, l) THEN h[k][i] ELSE NullEntry]]

\* &cacheEntry{...}: the least unused slot of the key.
NewSlot(k, d, l) ==
  CHOOSE i \in Slots : i \notin Refs(k, d, l) /\ \A j \in Slots : j \notin Refs(k, d, l) => i <= j

\* g.data[key], dereferenced.
EntryOf(s, k) == heap[k][data[s][k]]

\* _, exists := g.data[key]
Exists(s, k) == data[s][k] # 0

LockFree(s) == lock[s] = Free

\* A faulty variant of Joined: evict returns without listenerWg.Wait().
NotWaitedFor(s) == TRUE

\* listenerWg.Wait() of the last evict on shard s has returned.
Joined(s) == fan[s].pending = {}

Running == panic = NoVal

Idle(p) == pc[p] = "idle" /\ Running /\ ops < cfg.calls

At(p, label) == Running /\ pc[p] = label

\* Whether the router can index its shards with the key's hash.
Routable(k) == ShardIndex(k) >= 0

----------------------------------------------------------------------------
\* History kept for the properties (no code reads it)

InFlightGet(q, k) == loc[q].op = "get" /\ loc[q].key = k

\* A put, an invalidation or an eviction of k intervenes: a new load event of
\* k begins, and the Gets of k in flight are no longer undisturbed.
Disturb(o, k) ==
  [o EXCEPT !.era[k] = NoEra,
            !.clean = [q \in Procs |-> IF InFlightGet(q, k) THEN FALSE ELSE @[q]]]

\* The last completed put of k no longer decides what Get returns.
Forget(o, k) ==
  [o EXCEPT !.put[k] = NoPut,
            !.expect = [q \in Procs |-> IF InFlightGet(q, k) THEN NoPut ELSE @[q]]]

RECURSIVE DisturbAll(_, _)
DisturbAll(o, ks) ==
  IF ks = {} THEN o
  ELSE LET k == CHOOSE x \in ks : TRUE IN DisturbAll(Forget(Disturb(o, k), k), ks \ {k})

SeqRange(q) == {q[i] : i \in DOMAIN q}

\* A call that is not a put of a key not put before ends the run of distinct puts.
Impure(o) == [o EXCEPT !.pure = FALSE]

StartGet(o, p, k, missing) ==
  [Impure(o) EXCEPT !.clean[p] = TRUE, !.expect[p] = o.put[k], !.start[p] = clock,
                    !.miss[p] = missing, !.absent[p] = missing,
                    !.watch[p] = {k} \cap o.cleared]

StartPut(o, p, k, held) ==
  LET o1 == Forget(Disturb(o, k), k)
      o2 == IF o.pure /\ k \notin o.putKeys
            THEN [o1 EXCEPT !.putKeys = @ \cup {k}] ELSE Impure(o1) IN
  [o2 EXCEPT !.held[p] = held]

StartOther(o, p, ks, watch) == [DisturbAll(Impure(o), ks) EXCEPT !.watch[p] = watch]

\* The call of p returns: its history goes with its result.
EndCall(o, p) ==
  [o EXCEPT !.clean[p] = FALSE, !.expect[p] = NoPut, !.start[p] = 0, !.got[p] = {},
            !.miss[p] = FALSE, !.absent[p] = FALSE,
            !.held[p] = NoVal, !.replaced[p] = NoVal, !.watch[p] = {}]

\* evict removed an entry of key k.
Evicted(o, k, reason) ==
  LET o1 == Disturb(o, k)
      o2 == IF reason = "SIZE" THEN Forget(o1, k) ELSE o1 IN
  IF reason = "SIZE" /\ o.pure THEN [o2 EXCEPT !.nSize = @ + 1] ELSE o2

\* Key k was inserted: no call watches it any longer (InvalidateAll watches
\* the keys present at its call, Get its key if InvalidateAll cleared it).
Inserted(o, k) ==
  [o EXCEPT !.watch = [q \in Procs |-> @[q] \ {k}],
            !.cleared = @ \ {k},
            !.absent = [q \in Procs |-> IF InFlightGet(q, k) THEN FALSE ELSE @[q]]]

\* The clock moves to `now`: the entries put that are now expired.
Expiring(o, now) ==
  LET gone == {k \in AllKeys :
                 /\ o.put[k].val # NoVal
                 /\ \/ expiresAfterWrite /\ o.put[k].at + cfg.ExpireAfterWrite < now
                    \/ /\ data[ShardIndex(k)][k] # 0
                       /\ isExpired(EntryOf(ShardIndex(k), k), now)} IN
  [o EXCEPT !.put = [k \in AllKeys |-> IF k \in gone THEN [@[k] EXCEPT !.live = FALSE] ELSE @[k]],
            !.expect = [q \in Procs |->
                          IF loc[q].op = "get" /\ loc[q].key \in gone
                          THEN [@[q] EXCEPT !.live = FALSE] ELSE @[q]]]

InitObs ==
  [put |-> [k \in AllKeys |-> NoPut],
   expect |-> [p \in Procs |-> NoPut],
   start |-> [p \in Procs |-> 0],
   era |-> [k \in AllKeys |-> NoEra],
   clean |-> [p \in Procs |-> FALSE],
   miss |-> [p \in Procs |-> FALSE],
   absent |-> [p \in Procs |-> FALSE],
   cleared |-> {},
   got |-> [p \in Procs |-> {}],
   held |-> [p \in Procs |-> NoVal],
   replaced |-> [p \in Procs |-> NoVal],
   watch |-> [p \in Procs |-> {}],
   closed |-> [s \in Shards |-> FALSE],
   sweepAt |-> [s \in Shards |-> 0],
   gets |-> [s \in Shards |-> 0],
   pure |-> TRUE,
   putKeys |-> {},
   nSize |-> 0]

----------------------------------------------------------------------------
\* New

InitWith(configs) ==
  /\ cfg \in configs
  /\ clock = 0
  /\ data = [s \in Shards |-> [k \in AllKeys |-> 0]]
  /\ heap = [k \in AllKeys |-> [i \in Slots |-> NullEntry]]
  /\ lock = [s \in Shards |-> Free]
  /\ fan = [s \in Shards |-> NoFan]
  /\ stats = [s \in Shards |-> ZeroStats]
  /\ done = [s \in Shards |-> FALSE]
  /\ ticker = [s \in Shards |-> FALSE]
  /\ sw = [s \in Shards |->
             [pc |-> IF cfg.BackgroundEvictFrequency > 0 THEN "select" ELSE "off", todo |-> {}]]
  /\ pc = [p \in Procs |-> "idle"]
  /\ loc = [p \in Procs |-> NoLoc]
  /\ ret = NoRet
  /\ ops = 0
  /\ panic = NoVal
  /\ obs = InitObs

----------------------------------------------------------------------------
\* evict

\* evict, lines 355-385: remove the entry, count it, and start one listener
\* goroutine per registered listener.  The caller waits for them (Joined)
\* before its next statement.  l2, o2: the caller's locals and history.
evict(s, key, reason, by, l2, o2) ==
  LET id == data[s][key] IN
  IF id = 0
  THEN /\ UNCHANGED <<data, stats, fan>>
       /\ heap' = Collect(heap, data, l2)
       /\ obs' = o2
  ELSE LET d2 == [data EXCEPT ![s][key] = 0] IN
       /\ data' = d2
       /\ stats' = [stats EXCEPT ![s].evictions = @ + 1]
       /\ fan' = [fan EXCEPT ![s] =
                    IF cfg.RemovalListeners = {} THEN NoFan
                    ELSE [key |-> key, value |-> heap[key][id].value, reason |-> reason,
                          by |-> by, pending |-> cfg.RemovalListeners]]
       /\ heap' = Collect(heap, d2, l2)
       /\ obs' = Evicted(o2, key, reason)

\* The goroutine of listener l, lines 379-382: listener(notification), Done.
ListenerRun(s, l) ==
  /\ Running
  /\ l \in fan[s].pending
  /\ fan' = [fan EXCEPT ![s] = IF fan[s].pending = {l} THEN NoFan
                                ELSE [@ EXCEPT !.pending = @ \ {l}]]
  /\ obs' = IF fan[s].by \in Procs
            THEN [obs EXCEPT !.got[fan[s].by] = @ \cup
                    {[listener |-> l, key |-> fan[s].key, value |-> fan[s].value,
                      reason |-> fan[s].reason]}]
            ELSE obs
  /\ UNCHANGED <<cfg, clock, data, heap, lock, stats, done, ticker, sw, pc, loc, ops, panic>> /\ ret' = NoRet

----------------------------------------------------------------------------
\* Get and load

\* A call returns (val, err); o2 is the history after the call's last step.
Return(p, op, k, val, err, o2) ==
  /\ pc' = [pc EXCEPT ![p] = "idle"]
  /\ loc' = [loc EXCEPT ![p] = NoLoc]
  /\ ret' = [proc |-> p, op |-> op, key |-> k, val |-> val, err |-> err,
             expect |-> o2.expect[p], clean |-> o2.clean[p], miss |-> o2.miss[p],
             absent |-> o2.absent[p], start |-> o2.start[p],
             got |-> o2.got[p], held |-> o2.held[p], replaced |-> o2.replaced[p],
             watch |-> o2.watch[p]]
  /\ obs' = [EndCall(o2, p) EXCEPT !.gets[loc[p].shard] = @ + IF op = "get" THEN 1 ELSE 0]

\* Get, lines 266-276: under the read lock, look the key up and copy the value.
Get(p, k) ==
  /\ Idle(p)
  /\ k \in cfg.keys
  /\ Routable(k)
  /\ LockFree(ShardIndex(k))
  /\ LET s == ShardIndex(k)
         id == data[s][k] IN
     /\ loc' = [loc EXCEPT ![p] =
                  [NoLoc EXCEPT !.op = "get", !.key = k, !.shard = s, !.entry = id,
                                !.toReturn = IF id = 0 THEN NoVal ELSE heap[k][id].value]]
     /\ pc' = [pc EXCEPT ![p] = IF id = 0 THEN "load" ELSE "get_check"]
  /\ ops' = ops + 1
  /\ obs' = StartGet(obs, p, k, ~Exists(ShardIndex(k), k))
  /\ UNCHANGED <<cfg, clock, data, heap, lock, fan, stats, done, ticker, sw, panic>> /\ ret' = NoRet

\* Get, line 278: isExpired(entry), outside the lock, on the pointer read before.
GetCheck(p) ==
  /\ At(p, "get_check")
  /\ IF isExpired(heap[loc[p].key][loc[p].entry], clock)
     THEN LET l2 == [loc EXCEPT ![p].entry = 0, ![p].toReturn = NoVal] IN
          /\ pc' = [pc EXCEPT ![p] = "get_evict"]
          /\ loc' = l2
          /\ heap' = Collect(heap, data, l2)
     ELSE /\ pc' = [pc EXCEPT ![p] = "get_touch"]
          /\ UNCHANGED <<loc, heap>>
  /\ UNCHANGED <<cfg, clock, data, lock, fan, stats, done, ticker, sw, ops, panic, obs>> /\ ret' = NoRet

\* Get, lines 286-288: entry.lastRead = Now(), count a hit, return the copy.
GetTouch(p) ==
  /\ At(p, "get_touch")
  /\ heap' = Collect([heap EXCEPT ![loc[p].key][loc[p].entry].lastRead = clock],
                     data, [loc EXCEPT ![p] = NoLoc])
  /\ stats' = [stats EXCEPT ![loc[p].shard].hits = @ + 1]
  /\ Return(p, "get", loc[p].key, loc[p].toReturn, "nil",
            obs)
  /\ UNCHANGED <<cfg, clock, data, lock, fan, done, ticker, sw, ops, panic>>

\* concurrentEvict, lines 318-321, called at line 279: take the write lock
\* and evict whatever the key holds now.
GetEvict(p) ==
  /\ At(p, "get_evict")
  /\ LockFree(loc[p].shard)
  /\ lock' = [lock EXCEPT ![loc[p].shard] = p]
  /\ evict(loc[p].shard, loc[p].key, "EXPIRED", p, loc, obs)
  /\ pc' = [pc EXCEPT ![p] = "get_evicted"]
  /\ UNCHANGED <<cfg, clock, done, ticker, sw, loc, ops, panic>> /\ ret' = NoRet

\* A faulty variant of GetEvicted: the lock is released while listeners run.
GetEvictedEarly(p) ==
  /\ At(p, "get_evicted")
  /\ lock' = [lock EXCEPT ![loc[p].shard] = Free]
  /\ pc' = [pc EXCEPT ![p] = "load"]
  /\ UNCHANGED <<cfg, clock, data, heap, fan, stats, done, ticker, sw, loc, ops, panic, obs>> /\ ret' = NoRet

\* concurrentEvict: the deferred Unlock, after evict's listenerWg.Wait.
GetEvicted(p) ==
  /\ At(p, "get_evicted")
  /\ Joined(loc[p].shard)
  /\ lock' = [lock EXCEPT ![loc[p].shard] = Free]
  /\ pc' = [pc EXCEPT ![p] = "load"]
  /\ UNCHANGED <<cfg, clock, data, heap, fan, stats, done, ticker, sw, loc, ops, panic, obs>> /\ ret' = NoRet

\* A faulty variant of LoadHit: the hit found by the double check is not counted.
LoadHitUncounted(p, s, k) ==
  /\ Return(p, "get", k, EntryOf(s, k).value, "nil", obs)
  /\ UNCHANGED <<lock, data, heap, stats>>

\* load, lines 298-300: the key is in the map when load has the lock.
LoadHit(p, s, k) ==
  /\ stats' = [stats EXCEPT ![s].hits = @ + 1]
  /\ Return(p, "get", k, EntryOf(s, k).value, "nil", obs)
  /\ UNCHANGED <<lock, data, heap>>

\* A faulty variant of LoadMiss: the miss leaves an empty entry under the key.
LoadMissInserts(p, s, k) ==
  /\ stats' = [stats EXCEPT ![s].misses = @ + 1]
  /\ Return(p, "get", k, NoVal, "NotFound", obs)
  /\ data' = [data EXCEPT ![s][k] = NewSlot(k, data, loc)]
  /\ heap' = [heap EXCEPT ![k][NewSlot(k, data, loc)] =
                [value |-> NoVal, lastRead |-> clock, lastWrite |-> clock]]
  /\ UNCHANGED <<lock>>

\* load, lines 301-303: no loader is configured.
LoadMiss(p, s, k) ==
  /\ stats' = [stats EXCEPT ![s].misses = @ + 1]
  /\ Return(p, "get", k, NoVal, "NotFound", obs)
  /\ UNCHANGED <<lock, data, heap>>

\* A faulty variant of LoadStart: the loader is called without the lock.
LoadStartUnlocked(p, s) ==
  /\ pc' = [pc EXCEPT ![p] = "load_call"]
  /\ obs' = [obs EXCEPT !.era[loc[p].key].calls = @ + 1]
  /\ UNCHANGED <<lock, stats, loc, data, heap>> /\ ret' = NoRet

\* load, lines 306-307: the loader is called, under the write lock.
LoadStart(p, s) ==
  /\ lock' = [lock EXCEPT ![s] = p]
  /\ pc' = [pc EXCEPT ![p] = "load_call"]
  /\ obs' = [obs EXCEPT !.era[loc[p].key].calls = @ + 1]
  /\ UNCHANGED <<stats, loc, data, heap>> /\ ret' = NoRet

\* A faulty variant of Load: no double check of the map under the write lock.
LoadNoDoubleCheck(p) ==
  /\ At(p, "load")
  /\ LockFree(loc[p].shard)
  /\ IF ~cfg.Load
     THEN LoadMiss(p, loc[p].shard, loc[p].key)
     ELSE LoadStart(p, loc[p].shard)
  /\ UNCHANGED <<cfg, clock, fan, done, ticker, sw, ops, panic>>

\* load, lines 291-304: take the write lock; if the key is there now, a hit;
\* with no loader, a miss and ErrKeyNotFound; else go on to call the loader.
Load(p) ==
  /\ At(p, "load")
  /\ LockFree(loc[p].shard)
  /\ IF Exists(loc[p].shard, loc[p].key)
     THEN LoadHit(p, loc[p].shard, loc[p].key)
     ELSE IF ~cfg.Load
     THEN LoadMiss(p, loc[p].shard, loc[p].key)
     ELSE LoadStart(p, loc[p].shard)
  /\ UNCHANGED <<cfg, clock, fan, done, ticker, sw, ops, panic>>

\* A faulty variant of LoadFailed: the lock is not released when the loader fails.
LoadFailedLocked(p, s, k) ==
  /\ stats' = [stats EXCEPT ![s].loadError = @ + 1]
  /\ Return(p, "get", k, NoVal, "LoadFailure", obs)
  /\ UNCHANGED <<lock, data, heap>>

\* A faulty variant of LoadFailed: the failure is stored as an entry.
LoadFailedCached(p, s, k) ==
  /\ stats' = [stats EXCEPT ![s].loadError = @ + 1]
  /\ lock' = [lock EXCEPT ![s] = Free]
  /\ Return(p, "get", k, NoVal, "LoadFailure", obs)
  /\ data' = [data EXCEPT ![s][k] = NewSlot(k, data, loc)]
  /\ heap' = [heap EXCEPT ![k][NewSlot(k, data, loc)] =
                [value |-> NoVal, lastRead |-> clock, lastWrite |-> clock]]

\* load, lines 308-311: the loader failed; count it, return the error
\* wrapped with the key, insert nothing.
LoadFailed(p, s, k) ==
  /\ stats' = [stats EXCEPT ![s].loadError = @ + 1]
  /\ lock' = [lock EXCEPT ![s] = Free]
  /\ Return(p, "get", k, NoVal, "LoadFailure", obs)
  /\ UNCHANGED <<data, heap>>

\* load, lines 312-314: the loader returned r; count it and go on to internalPut.
LoadSucceeded(p, s, k, r) ==
  /\ stats' = [stats EXCEPT ![s].loadSuccess = @ + 1]
  /\ loc' = [loc EXCEPT ![p].val = r]
  /\ pc' = [pc EXCEPT ![p] = "ip_size"]
  /\ obs' = [obs EXCEPT !.era[k].succ = @ + 1, !.era[k].val = r]
  /\ UNCHANGED <<lock, data, heap>> /\ ret' = NoRet

\* load, lines 306-314: the loader returns r, a value or an error.
LoadCall(p, r) ==
  /\ At(p, "load_call")
  /\ IF r = "error"
     THEN LoadFailed(p, loc[p].shard, loc[p].key)
     ELSE LoadSucceeded(p, loc[p].shard, loc[p].key, r)
  /\ UNCHANGED <<cfg, clock, fan, done, ticker, sw, ops, panic>>

----------------------------------------------------------------------------
\* internalPut and Put

\* The keys `for toEvict := range g.data` can yield first: any key of the map.
Victims(s) == Present(data, s)

\* A faulty variant of NeedsRoom: > for >=.
NeedsRoomOffByOne(s) == cfg.MaxSize > 0 /\ Cardinality(Present(data, s)) > cfg.MaxSize

\* internalPut, line 390: g.MaxSize > 0 && int32(len(g.data)) >= g.MaxSize
NeedsRoom(s) == cfg.MaxSize > 0 /\ Cardinality(Present(data, s)) >= cfg.MaxSize

\* internalPut, lines 390-398, called by load (line 314) and Put (line 429):
\* at MaxSize, evict the first entry the map's iteration yields.
InternalPutSize(p) ==
  /\ At(p, "ip_size")
  /\ Joined(loc[p].shard)
  /\ IF NeedsRoom(loc[p].shard)
     THEN \E victim \in Victims(loc[p].shard) :
            evict(loc[p].shard, victim, "SIZE", p, loc, obs)
     ELSE UNCHANGED <<data, heap, stats, fan, obs>>
  /\ pc' = [pc EXCEPT ![p] = "ip_insert"]
  /\ UNCHANGED <<cfg, clock, lock, done, ticker, sw, loc, ops, panic>> /\ ret' = NoRet

\* internalPut, lines 399-404, then the deferred Unlock of load or Put and
\* their return: store a new entry stamped with the clock.
InternalPutInsert(p) ==
  /\ At(p, "ip_insert")
  /\ Joined(loc[p].shard)
  /\ LET s == loc[p].shard
         k == loc[p].key
         id == NewSlot(k, data, loc)
         d2 == [data EXCEPT ![s][k] = id]
         h2 == [heap EXCEPT ![k][id] =
                  [value |-> loc[p].val, lastRead |-> clock, lastWrite |-> clock]]
         o2 == Inserted(obs, k) IN
     /\ data' = d2
     /\ heap' = Collect(h2, d2, [loc EXCEPT ![p] = NoLoc])
     /\ lock' = [lock EXCEPT ![s] = Free]
     /\ IF loc[p].op = "put"
        THEN Return(p, "put", k, NoVal, "nil",
                    [o2 EXCEPT !.put[k] = [val |-> loc[p].val, at |-> clock, live |-> TRUE]])
        ELSE Return(p, "get", k, loc[p].val, "nil", o2)
  /\ UNCHANGED <<cfg, clock, fan, stats, done, ticker, sw, ops, panic>>

\* preWriteCleanup, lines 412-414: nothing to scan when the background
\* goroutine does the evicting.
CleanupKeys(s) == IF cfg.BackgroundEvictFrequency > 0 THEN {} ELSE Present(data, s)

\* Put, lines 423-424: take the write lock.
Put(p, k, v) ==
  /\ Idle(p)
  /\ k \in cfg.keys
  /\ v \in cfg.values
  /\ Routable(k)
  /\ LockFree(ShardIndex(k))
  /\ LET s == ShardIndex(k) IN
     /\ lock' = [lock EXCEPT ![s] = p]
     /\ loc' = [loc EXCEPT ![p] =
                  [NoLoc EXCEPT !.op = "put", !.key = k, !.val = v, !.shard = s,
                                !.todo = CleanupKeys(s)]]
     /\ obs' = StartPut(obs, p, k, IF Exists(s, k) THEN EntryOf(s, k).value ELSE NoVal)
  /\ pc' = [pc EXCEPT ![p] = "put_cleanup"]
  /\ ops' = ops + 1
  /\ UNCHANGED <<cfg, clock, data, heap, fan, stats, done, ticker, sw, panic>> /\ ret' = NoRet

\* preWriteCleanup, lines 415-419: one visit of the range loop.
PutCleanup(p) ==
  /\ At(p, "put_cleanup")
  /\ Joined(loc[p].shard)
  /\ \E k \in loc[p].todo :
       LET l2 == [loc EXCEPT ![p].todo = @ \ {k}] IN
       /\ loc' = l2
       /\ IF isExpired(EntryOf(loc[p].shard, k), clock)
          THEN evict(loc[p].shard, k, "EXPIRED", p, l2, obs)
          ELSE UNCHANGED <<data, heap, stats, fan, obs>>
  /\ UNCHANGED <<cfg, clock, lock, done, ticker, sw, pc, ops, panic>> /\ ret' = NoRet

\* Put, lines 426-428: after the cleanup, evict the key's entry if it has one.
PutReplace(p) ==
  /\ At(p, "put_cleanup")
  /\ Joined(loc[p].shard)
  /\ loc[p].todo = {}
  /\ IF Exists(loc[p].shard, loc[p].key)
     THEN evict(loc[p].shard, loc[p].key, "REPLACED", p, loc,
                [obs EXCEPT !.replaced[p] = EntryOf(loc[p].shard, loc[p].key).value])
     ELSE UNCHANGED <<data, heap, stats, fan, obs>>
  /\ pc' = [pc EXCEPT ![p] = "ip_size"]
  /\ UNCHANGED <<cfg, clock, lock, done, ticker, sw, loc, ops, panic>> /\ ret' = NoRet

----------------------------------------------------------------------------
\* Invalidate and InvalidateAll

Removed(d, s, ks) == [d EXCEPT ![s] = [k \in AllKeys |-> IF k \in ks THEN 0 ELSE @[k]]]

\* The keys one locked section of Invalidate deletes: genericCache.Invalidate
\* (lines 432-439) deletes them all, the router (lines 210-215) calls its
\* shards with one key at a time.
FirstKeys(ks) == IF Sharded THEN {ks[1]} ELSE SeqRange(ks)

RestKeys(ks) == IF Sharded THEN Tail(ks) ELSE <<>>

KeyLists == {<<k>> : k \in cfg.keys} \cup {<<k1, k2>> : k1 \in cfg.keys, k2 \in cfg.keys}

InvalidateStep(p, ks, o2) ==
  /\ Routable(ks[1])
  /\ LockFree(ShardIndex(ks[1]))
  /\ data' = Removed(data, ShardIndex(ks[1]), FirstKeys(ks))
  /\ heap' = Collect(heap, Removed(data, ShardIndex(ks[1]), FirstKeys(ks)), loc)
  /\ IF RestKeys(ks) = <<>>
     THEN Return(p, "invalidate", ks[1], NoVal, "nil", o2)
     ELSE /\ pc' = [pc EXCEPT ![p] = "invalidate"]
          /\ loc' = [loc EXCEPT ![p] = [NoLoc EXCEPT !.op = "invalidate", !.keys = RestKeys(ks)]]
          /\ obs' = o2
          /\ ret' = NoRet

\* A faulty variant of Invalidate: the removal is counted as an eviction.
InvalidateCounted(p, ks) ==
  /\ Idle(p)
  /\ InvalidateStep(p, ks, StartOther(obs, p, SeqRange(ks), {}))
  /\ ops' = ops + 1
  /\ stats' = [stats EXCEPT ![ShardIndex(ks[1])].evictions = @ + 1]
  /\ UNCHANGED <<cfg, clock, lock, fan, done, ticker, sw, panic>>

\* Invalidate: the call, and its first locked section.
Invalidate(p, ks) ==
  /\ Idle(p)
  /\ InvalidateStep(p, ks, StartOther(obs, p, SeqRange(ks), {}))
  /\ ops' = ops + 1
  /\ UNCHANGED <<cfg, clock, lock, fan, stats, done, ticker, sw, panic>>

\* shardedCache.Invalidate, lines 212-214: the next key of keys.
InvalidateNext(p) ==
  /\ At(p, "invalidate")
  /\ InvalidateStep(p, loc[p].keys, obs)
  /\ UNCHANGED <<cfg, clock, lock, fan, stats, done, ticker, sw, ops, panic>>

\* A faulty variant of Cleared: one key survives.
ClearedButOne(s) == Removed(data, s, AllKeys \ {"a"})

\* genericCache.InvalidateAll, lines 444-446: every key is deleted.
Cleared(s) == Removed(data, s, AllKeys)

\* genericCache.InvalidateAll, lines 441-447, on shard s, and the router's
\* loop over its shards, lines 217-221.
InvalidateAllStep(p, s, o2) ==
  /\ LockFree(s)
  /\ data' = Cleared(s)
  /\ heap' = Collect(heap, Cleared(s), loc)
  /\ IF s + 1 = NumShards(cfg)
     THEN Return(p, "invalidate_all", NoVal, NoVal, "nil",
                 [o2 EXCEPT !.cleared = @ \cup o2.watch[p]])
     ELSE /\ pc' = [pc EXCEPT ![p] = "invalidate_all"]
          /\ loc' = [loc EXCEPT ![p] = [NoLoc EXCEPT !.op = "invalidate_all", !.shard = s + 1]]
          /\ obs' = o2
          /\ ret' = NoRet

AllPresent == UNION {Present(data, s) : s \in Shards}

InvalidateAll(p) ==
  /\ Idle(p)
  /\ InvalidateAllStep(p, 0, StartOther(obs, p, AllKeys, AllPresent))
  /\ ops' = ops + 1
  /\ UNCHANGED <<cfg, clock, lock, fan, stats, done, ticker, sw, panic>>

InvalidateAllNext(p) ==
  /\ At(p, "invalidate_all")
  /\ InvalidateAllStep(p, loc[p].shard, obs)
  /\ UNCHANGED <<cfg, clock, lock, fan, stats, done, ticker, sw, ops, panic>>

----------------------------------------------------------------------------
\* Close

\* genericCache.Close, line 450: close(g.done).  Closing a closed channel
\* is a run-time panic, which no caller recovers: the process aborts.
CloseSignal(p, s) ==
  IF done[s]
  THEN /\ panic' = "close of closed channel"
       /\ UNCHANGED <<done, pc, loc>>
  ELSE /\ done' = [done EXCEPT ![s] = TRUE]
       /\ pc' = [pc EXCEPT ![p] = "close_wait"]
       /\ loc' = [loc EXCEPT ![p] = [NoLoc EXCEPT !.op = "close", !.shard = s]]
       /\ UNCHANGED panic

\* Close: the call, on the single engine or on the router's first shard.
Close(p) ==
  /\ Idle(p)
  /\ CloseSignal(p, 0)
  /\ ops' = ops + 1
  /\ obs' = Impure(obs)
  /\ UNCHANGED <<cfg, clock, data, heap, lock, fan, stats, ticker, sw>> /\ ret' = NoRet

\* shardedCache.Close, lines 224-226: the next shard.
CloseNext(p) ==
  /\ At(p, "close_next")
  /\ CloseSignal(p, loc[p].shard)
  /\ UNCHANGED <<cfg, clock, data, heap, lock, fan, stats, ticker, sw, ops, obs>> /\ ret' = NoRet

\* A faulty variant of WaitOver: Close does not wait for the goroutine.
WaitOverAtOnce(s) == TRUE

\* backgroundWg.Wait() returns when the counter is 0: no background
\* goroutine was started, or it has called Done.
WaitOver(s) == sw[s].pc \in {"off", "exited"}

\* genericCache.Close, line 452: g.backgroundWg.Wait(), then return.
CloseWait(p) ==
  /\ At(p, "close_wait")
  /\ WaitOver(loc[p].shard)
  /\ IF loc[p].shard + 1 = NumShards(cfg)
     THEN Return(p, "close", NoVal, NoVal, "nil", [obs EXCEPT !.closed[loc[p].shard] = TRUE])
     ELSE /\ pc' = [pc EXCEPT ![p] = "close_next"]
          /\ loc' = [loc EXCEPT ![p].shard = @ + 1]
          /\ obs' = [obs EXCEPT !.closed[loc[p].shard] = TRUE]
          /\ ret' = NoRet
  /\ UNCHANGED <<cfg, clock, data, heap, lock, fan, stats, done, ticker, sw, ops, panic>>

----------------------------------------------------------------------------
\* The background goroutine

\* runBackgroundEvict, line 332: a tick is received.
SweepTick(s) ==
  /\ Running
  /\ sw[s].pc = "select"
  /\ ticker[s]
  /\ ticker' = [ticker EXCEPT ![s] = FALSE]
  /\ sw' = [sw EXCEPT ![s].pc = "lock"]
  /\ UNCHANGED <<cfg, clock, data, heap, lock, fan, stats, done, pc, loc, ops, panic, obs>> /\ ret' = NoRet

\* runBackgroundEvict, lines 330-331 and the defers: done is closed, stop
\* the ticker, backgroundWg.Done().
SweepExit(s) ==
  /\ Running
  /\ sw[s].pc = "select"
  /\ done[s]
  /\ sw' = [sw EXCEPT ![s].pc = "exited"]
  /\ ticker' = [ticker EXCEPT ![s] = FALSE]
  /\ UNCHANGED <<cfg, clock, data, heap, lock, fan, stats, done, pc, loc, ops, panic, obs>> /\ ret' = NoRet

\* backgroundEvict, line 341: take the write lock; the range loop starts.
SweepLock(s) ==
  /\ Running
  /\ sw[s].pc = "lock"
  /\ LockFree(s)
  /\ lock' = [lock EXCEPT ![s] = Sweeper]
  /\ sw' = [sw EXCEPT ![s] = [pc |-> "scan", todo |-> Present(data, s)]]
  /\ obs' = [obs EXCEPT !.sweepAt[s] = clock]
  /\ UNCHANGED <<cfg, clock, data, heap, fan, stats, done, ticker, pc, loc, ops, panic>> /\ ret' = NoRet

\* A faulty variant of SweepScan: the loop ends after the first eviction.
SweepScanOnce(s) ==
  /\ Running
  /\ sw[s].pc = "scan"
  /\ Joined(s)
  /\ \E k \in sw[s].todo :
       IF isExpired(EntryOf(s, k), clock)
       THEN /\ sw' = [sw EXCEPT ![s].todo = {}]
            /\ evict(s, k, "EXPIRED", Sweeper, loc, obs)
       ELSE /\ sw' = [sw EXCEPT ![s].todo = @ \ {k}]
            /\ UNCHANGED <<data, heap, stats, fan, obs>>
  /\ UNCHANGED <<cfg, clock, lock, done, ticker, pc, loc, ops, panic>> /\ ret' = NoRet

\* backgroundEvict, lines 343-352: one visit of the range loop.
SweepScan(s) ==
  /\ Running
  /\ sw[s].pc = "scan"
  /\ Joined(s)
  /\ \E k \in sw[s].todo :
       /\ sw' = [sw EXCEPT ![s].todo = @ \ {k}]
       /\ IF isExpired(EntryOf(s, k), clock)
          THEN evict(s, k, "EXPIRED", Sweeper, loc, obs)
          ELSE UNCHANGED <<data, heap, stats, fan, obs>>
  /\ UNCHANGED <<cfg, clock, lock, done, ticker, pc, loc, ops, panic>> /\ ret' = NoRet

\* backgroundEvict: the loop is over, the deferred Unlock.
SweepUnlock(s) ==
  /\ Running
  /\ sw[s].pc = "scan"
  /\ Joined(s)
  /\ sw[s].todo = {}
  /\ lock' = [lock EXCEPT ![s] = Free]
  /\ sw' = [sw EXCEPT ![s].pc = "select"]
  /\ obs' = [obs EXCEPT !.sweepAt[s] = 0]
  /\ UNCHANGED <<cfg, clock, data, heap, fan, stats, done, ticker, pc, loc, ops, panic>> /\ ret' = NoRet

----------------------------------------------------------------------------
\* The clock and the router's indexing

\* The clock advances by one unit.  A ticker of a running background
\* goroutine puts a tick in its channel every BackgroundEvictFrequency units.
Tick ==
  /\ Running
  /\ clock < cfg.horizon
  /\ clock' = clock + 1
  /\ ticker' = [s \in Shards |->
                  IF /\ sw[s].pc \notin {"off", "exited"}
                     /\ (clock + 1) % cfg.BackgroundEvictFrequency = 0
                  THEN TRUE ELSE ticker[s]]
  /\ obs' = Expiring(obs, clock + 1)
  /\ UNCHANGED <<cfg, data, heap, lock, fan, stats, done, sw, pc, loc, ops, panic>> /\ ret' = NoRet

\* shardedCache.Get, Put, Invalidate, lines 202, 207, 211, 213: indexing
\* s.shards with a negative remainder is a run-time panic.
RouteAbort(p, k) ==
  /\ IF pc[p] = "invalidate" THEN k = loc[p].keys[1] ELSE Idle(p) /\ k \in cfg.keys
  /\ Running
  /\ ~Routable(k)
  /\ panic' = "index out of range"
  /\ UNCHANGED <<cfg, clock, data, heap, lock, fan, stats, done, ticker, sw, pc, loc, ops, obs>> /\ ret' = NoRet

----------------------------------------------------------------------------
\* Configurations and specifications

HashOf == [k \in AllKeys |-> CASE k = "a" -> 0 [] k = "b" -> 1 [] OTHER -> 2]

\* A hash function that returns a negative int for one key (HashCodeFunc
\* returns int, line 124).
SignedHashOf == [k \in AllKeys |-> CASE k = "a" -> 2 [] k = "b" -> 1 [] OTHER -> -3]

\* CacheOptions, with the keys and values the callers use, the number of
\* calls they make and the time the clock runs to.
Options(eaw, ear, load, max, ls, sc, bg, ks, vs, calls, horizon) ==
  [ExpireAfterWrite |-> eaw, ExpireAfterRead |-> ear, Load |-> load, MaxSize |-> max,
   RemovalListeners |-> ls, ShardCount |-> sc, HashCodeFunc |-> HashOf,
   BackgroundEvictFrequency |-> bg, keys |-> ks, values |-> vs, calls |-> calls,
   horizon |-> horizon]

\* The steps of the callers that every configuration can take.
Calls ==
  \/ \E p \in Procs, k \in AllKeys : Get(p, k)
  \/ \E p \in Procs : GetTouch(p)
  \/ \E p \in Procs : GetCheck(p)
  \/ \E p \in Procs : Load(p)
  \/ \E p \in Procs, k \in AllKeys, v \in Values : Put(p, k, v)
  \/ \E p \in Procs : PutReplace(p)
  \/ \E p \in Procs : InternalPutSize(p)
  \/ \E p \in Procs : InternalPutInsert(p)
  \/ \E p \in Procs, ks \in KeyLists : Invalidate(p, ks)
  \/ \E p \in Procs : InvalidateAll(p)

\* The steps that expiry adds to Get and Put.
ExpirySteps ==
  \/ \E p \in Procs : GetEvict(p)
  \/ \E p \in Procs : GetEvicted(p)
  \/ Tick

Fanout == \E s \in Shards, l \in Listeners : ListenerRun(s, l)

Loading == \E p \in Procs, r \in LoadValues \cup {"error"} : LoadCall(p, r)

Cleanup == \E p \in Procs : PutCleanup(p)

Sweeping ==
  \/ \E s \in Shards : SweepTick(s)
  \/ \E s \in Shards : SweepLock(s)
  \/ \E s \in Shards : SweepScan(s)
  \/ \E s \in Shards : SweepUnlock(s)

Closing ==
  \/ \E p \in Procs : Close(p)
  \/ \E p \in Procs : CloseWait(p)

Stopping == \E s \in Shards : SweepExit(s)

\* The router's loops over its shards and over the keys of Invalidate.
Routing ==
  \/ \E p \in Procs : InvalidateNext(p)
  \/ \E p \in Procs : InvalidateAllNext(p)
  \/ \E p \in Procs : CloseNext(p)

\* One engine, one key, entries expire one unit after their write, one
\* listener, no loader, no background goroutine.
ExpiryConfigs == {Options(1, 0, FALSE, 0, {"l1"}, 1, 0, {"a"}, Values, MaxCalls, MaxClock)}

Init == InitWith(ExpiryConfigs)

Next == Calls \/ ExpirySteps \/ Cleanup \/ Fanout

Spec == Init /\ [][Next]_vars

\* The same engine, with one call more.
RaceConfigs == {Options(1, 0, FALSE, 0, {"l1"}, 1, 0, {"a"}, Values, RaceCalls, MaxClock)}

InitRace == InitWith(RaceConfigs)

SpecRace == InitRace /\ [][Next]_vars

\* One engine with a loader, one key, entries expire one unit after their write.
LoadConfigs == {Options(1, 0, TRUE, 0, {}, 1, 0, {"a"}, Values, MaxCalls, MaxClock)}

InitLoad == InitWith(LoadConfigs)

NextLoad == Calls \/ ExpirySteps \/ Cleanup \/ Loading

SpecLoad == InitLoad /\ [][NextLoad]_vars

\* Engines of MaxSize 1 and 2 with a loader and no expiry, and an engine of
\* MaxSize 1, with no loader, whose entries expire and are swept by the
\* background goroutine.
SizeConfigs ==
  {Options(0, 0, TRUE, n, {}, 1, 0, {"a", "b", "c"}, {"v1"}, MaxCalls, 0) : n \in {1, 2}}
  \cup {Options(1, 0, FALSE, 1, {}, 1, 1, {"a", "b"}, {"v1"}, MaxCalls - 1, MaxClock)}

InitSize == InitWith(SizeConfigs)

NextSize == Calls \/ ExpirySteps \/ Cleanup \/ Loading \/ Sweeping

SpecSize == InitSize /\ [][NextSize]_vars

\* One engine, one key, entries expire one unit after their write and the
\* background goroutine sweeps every unit; the callers also call Close.
SweepConfigs == {Options(1, 0, FALSE, 0, {"l1"}, 1, 1, {"a"}, {"v1"}, MaxCalls, MaxClock)}

InitSweep == InitWith(SweepConfigs)

NextSweep == Calls \/ ExpirySteps \/ Fanout \/ Sweeping \/ Closing \/ Stopping

SpecSweep == InitSweep /\ [][NextSweep]_vars

\* A single engine and a router of two shards, two keys, no expiry, no loader.
ShardedConfigs ==
  {Options(0, 0, FALSE, 0, {}, sc, 0, {"a", "b"}, {"v1"}, MaxCalls, 0) : sc \in {1, 2}}

InitSharded == InitWith(ShardedConfigs)

NextSharded == Calls \/ Cleanup \/ Routing \/ Closing

SpecSharded == InitSharded /\ [][NextSharded]_vars

\* A router of two shards whose hash function is negative for key c.
RouteConfigs ==
  {[Options(0, 0, FALSE, 0, {}, 2, 0, {"a", "b", "c"}, {"v1"}, MaxCalls, 0)
      EXCEPT !.HashCodeFunc = SignedHashOf]}

InitRoute == InitWith(RouteConfigs)

Aborting == \E p \in Procs, k \in AllKeys : RouteAbort(p, k)

NextRoute == Calls \/ Cleanup \/ Routing \/ Closing \/ Aborting

SpecRoute == InitRoute /\ [][NextRoute]_vars

\* Engines of MaxSize 1 with two listeners and two keys whose entries expire
\* one unit after their write, without and with the background goroutine
\* (and one call fewer).
NotifyConfigs ==
  {Options(1, 0, FALSE, 1, {"l1", "l2"}, 1, bg, {"a", "b"}, {"v1"}, MaxCalls - bg, MaxClock) :
     bg \in {0, 1}}

InitNotify == InitWith(NotifyConfigs)

NextNotify == Calls \/ ExpirySteps \/ Cleanup \/ Fanout \/ Sweeping

SpecNotify == InitNotify /\ [][NextNotify]_vars

\* One engine, two keys, no size limit, entries expire one unit after their
\* write and the background goroutine sweeps every unit.
ScanConfigs == {Options(1, 0, FALSE, 0, {}, 1, 1, {"a", "b"}, {"v1"}, MaxCalls - 1, MaxClock)}

InitScan == InitWith(ScanConfigs)

NextScan == Calls \/ ExpirySteps \/ Sweeping

SpecScan == InitScan /\ [][NextScan]_vars

\* One engine, one key, a loader and a listener; entries expire one unit
\* after their last read and never by their age.
ReadConfigs == {Options(0, 1, TRUE, 0, {"l1"}, 1, 0, {"a"}, {"v1"}, MaxCalls, MaxClock)}

InitRead == InitWith(ReadConfigs)

NextRead == Calls \/ ExpirySteps \/ Cleanup \/ Loading \/ Fanout

SpecRead == InitRead /\ [][NextRead]_vars

\* Engines of one key and one listener whose entries expire one unit after
\* their write: one with a loader and the background goroutine, one with
\* neither, whose callers do the evicting; the callers also call Close.
LiveConfigs ==
  {Options(1, 0, TRUE, 0, {"l1"}, 1, 1, {"a"}, {"v1"}, MaxCalls - 1, MaxClock - 1),
   Options(1, 0, FALSE, 0, {"l1"}, 1, 0, {"a"}, {"v1"}, MaxCalls - 1, MaxClock)}

InitLive == InitWith(LiveConfigs)

\* The loader returns one value or fails.
LiveLoads == {"w1", "error"}

LoadingLive == \E p \in Procs, r \in LiveLoads : LoadCall(p, r)

NextLive ==
  Calls \/ ExpirySteps \/ Cleanup \/ Fanout \/ LoadingLive \/ Sweeping \/ Closing \/ Stopping

\* The next step of the call that goroutine p is in.
Step(p) ==
  \/ GetCheck(p) \/ GetTouch(p) \/ GetEvict(p) \/ GetEvicted(p)
  \/ Load(p) \/ \E r \in LiveLoads : LoadCall(p, r)
  \/ PutCleanup(p) \/ PutReplace(p) \/ InternalPutSize(p) \/ InternalPutInsert(p)
  \/ CloseWait(p)

\* The next step of the background goroutine of shard s.
SweepStep(s) ==
  SweepTick(s) \/ SweepExit(s) \/ SweepLock(s) \/ SweepScan(s) \/ SweepUnlock(s)

\* The scheduler runs every goroutine that can take a step: a caller inside
\* a call, a listener with a notification, the background goroutine.  The
\* callers need not start calls and the clock need not advance.
Fairness ==
  /\ \A p \in Procs : WF_vars(Step(p))
  /\ \A l \in Listeners : WF_vars(ListenerRun(0, l))
  /\ WF_vars(SweepStep(0))

SpecLive == InitLive /\ [][NextLive]_vars /\ Fairness

----------------------------------------------------------------------------
\* Properties

Notified(l, k, v, reason) == [listener |-> l, key |-> k, value |-> v, reason |-> reason]

\* C1: a get(k) that starts after put(k, v) returned, with no later put,
\* invalidation, expiry or Size eviction of k up to its return, returns
\* (v, no error).
C1_PutThenGet ==
  (ret.op = "get" /\ ret.expect.val # NoVal /\ ret.expect.live)
    => (ret.val = ret.expect.val /\ ret.err = "nil")

\* C3: with ExpireAfterWrite = D and no loader, after put(k, v) at t0 a
\* get(k) that returns by t0 + D returns v and delivers no notification; a
\* get(k) that starts after t0 + D returns NotFound and delivers to the
\* listeners nothing but {k, v, Expired}.
C3_ExpireAfterWrite ==
  (expiresAfterWrite /\ ~cfg.Load /\ ret.op = "get" /\ ret.expect.val # NoVal)
    => /\ clock <= ret.expect.at + cfg.ExpireAfterWrite
            => (ret.val = ret.expect.val /\ ret.err = "nil" /\ ret.got = {})
       /\ ret.start > ret.expect.at + cfg.ExpireAfterWrite
            => /\ ret.err = "NotFound"
               /\ ret.got \subseteq {Notified(l, ret.key, ret.expect.val, "EXPIRED") :
                                       l \in cfg.RemovalListeners}

\* C5 as stated: a put(k, v2) called while k holds an entry with value v1
\* has delivered {k, v1, Replaced} to every listener when it returns.
C5_ReplacedWheneverHeld ==
  (ret.op = "put" /\ ret.held # NoVal)
    => \A l \in cfg.RemovalListeners : Notified(l, ret.key, ret.held, "REPLACED") \in ret.got

\* C5: a put(k, v2) that still finds an entry with value v1 under k after
\* its pre-write cleanup has delivered {k, v1, Replaced} to every listener
\* when it returns; an entry held at the call was reported to every listener
\* as Replaced or as Expired; and while a listener of a Replaced
\* notification has not returned, the put holds the write lock and the key
\* has no entry, so no get can read v2.
C5_ReplacedBeforeVisible ==
  /\ (ret.op = "put" /\ ret.replaced # NoVal)
       => \A l \in cfg.RemovalListeners :
            Notified(l, ret.key, ret.replaced, "REPLACED") \in ret.got
  /\ (ret.op = "put" /\ ret.held # NoVal)
       => \A l \in cfg.RemovalListeners :
            \/ Notified(l, ret.key, ret.held, "REPLACED") \in ret.got
            \/ Notified(l, ret.key, ret.held, "EXPIRED") \in ret.got
  /\ \A s \in Shards :
       (fan[s].pending # {} /\ fan[s].reason = "REPLACED")
         => /\ lock[s] = fan[s].by
            /\ loc[fan[s].by].op = "put"
            /\ ~Exists(s, fan[s].key)

C5_Witness ==
  /\ ret.op = "put"
  /\ ret.replaced # NoVal
  /\ cfg.RemovalListeners # {}
  /\ \A l \in cfg.RemovalListeners : Notified(l, ret.key, ret.replaced, "REPLACED") \in ret.got

\* C6: with no loader, a get of a key that has no entry from its call to its
\* return goes straight to load, returns (no value, NotFound), and its
\* steps leave the map unchanged.
C6_MissNotFound ==
  [][/\ \A p \in Procs : (~cfg.Load /\ obs.absent[p]) => pc[p] = "load"
     /\ \A p \in Procs : (~cfg.Load /\ obs.absent'[p] /\ pc[p] = "idle") => data' = data
     /\ (~cfg.Load /\ ret'.op = "get" /\ ret'.absent)
          => (ret'.err = "NotFound" /\ ret'.val = NoVal /\ data' = data)]_vars

C6_Witness == ~cfg.Load /\ ret.op = "get" /\ ret.absent /\ ret.err = "NotFound"

\* C2 as stated: with a loader, an undisturbed get of a key that was absent
\* at its call returns the value of the one loader call of its load event.
C2_LoadedExactlyOnce ==
  (cfg.Load /\ ret.op = "get" /\ ret.clean /\ ret.miss)
    => /\ ret.err = "nil"
       /\ ret.val = obs.era[ret.key].val
       /\ obs.era[ret.key].calls = 1

\* C2: with a loader, the loader succeeds at most once for a key between
\* two puts, invalidations or evictions of the key; an undisturbed get of a
\* key that was absent at its call returns that one loaded value with no
\* error, or the failure of a loader call.
C2_LoadOnce ==
  /\ \A k \in AllKeys : obs.era[k].succ <= 1 /\ obs.era[k].succ <= obs.era[k].calls
  /\ (cfg.Load /\ ret.op = "get" /\ ret.clean /\ ret.miss)
       => \/ /\ ret.err = "nil"
             /\ obs.era[ret.key].succ = 1
             /\ ret.val = obs.era[ret.key].val
          \/ /\ ret.err = "LoadFailure"
             /\ ret.val = NoVal

\* Two gets of an absent key, one loader call, the second get returns the
\* value the first loaded.
C2_Witness ==
  /\ cfg.Load /\ ret.op = "get" /\ ret.clean /\ ret.miss /\ ret.err = "nil"
  /\ ops = 2
  /\ obs.era[ret.key].calls = 1
  /\ stats[0].loadSuccess = 1
  /\ stats[0].hits = 1

\* C7: a get that returns the loader's failure returns no value and the
\* key, counts one load error, inserts nothing (the key has no entry and
\* the map is as before) and frees the lock; and a get that finds its key
\* absent in load calls the loader, whatever failed before.
C7_LoadFailure ==
  [][/\ ret'.err = "LoadFailure"
          => /\ ret'.op = "get"
             /\ ret'.val = NoVal
             /\ ret'.key = loc[ret'.proc].key
             /\ stats'[0].loadError = stats[0].loadError + 1
             /\ data' = data
             /\ ~Exists(0, ret'.key)
             /\ lock'[0] = Free
     /\ \A p \in Procs :
          (cfg.Load /\ pc[p] = "load" /\ pc'[p] # "load" /\ ~Exists(loc[p].shard, loc[p].key))
            => pc'[p] = "load_call"]_vars

\* After a failed load of a key, the loader is being called for it again.
C7_Witness ==
  /\ stats[0].loadError >= 1
  /\ \E p \in Procs : pc[p] = "load_call" /\ obs.era[loc[p].key].calls >= 2

\* C4: with MaxSize = N > 0 the map never holds more than N entries; and
\* with no expiry, once calls that only put distinct keys into the empty
\* engine have returned, one entry per key beyond N was evicted with reason
\* Size: exactly one for N + 1 keys.
C4_MaxSize ==
  /\ \A s \in Shards : cfg.MaxSize > 0 => Cardinality(Present(data, s)) <= cfg.MaxSize
  /\ (/\ cfg.MaxSize > 0
      /\ ~expiresAfterWrite
      /\ ~expiresAfterRead
      /\ obs.pure
      /\ \A p \in Procs : pc[p] = "idle")
       => /\ obs.nSize = IF Cardinality(obs.putKeys) > cfg.MaxSize
                         THEN Cardinality(obs.putKeys) - cfg.MaxSize ELSE 0
          /\ stats[0].evictions = obs.nSize

C4_Witness ==
  /\ cfg.MaxSize > 0
  /\ ~expiresAfterWrite
  /\ obs.pure
  /\ \A p \in Procs : pc[p] = "idle"
  /\ Cardinality(obs.putKeys) = cfg.MaxSize + 1
  /\ obs.nSize = 1
  /\ Cardinality(Present(data, 0)) = cfg.MaxSize

\* C8: once Close has returned on an engine with a background goroutine,
\* the goroutine has exited: it holds no lock, no notification of an
\* eviction of its own is pending, and it takes no step again.
C8_CloseJoins ==
  [][\A s \in Shards :
       obs.closed'[s]
         => /\ sw'[s].pc \in {"off", "exited"}
            /\ lock'[s] # Sweeper
            /\ fan'[s].by # Sweeper
            /\ obs.closed[s] => (sw'[s] = sw[s] /\ ticker'[s] = ticker[s])]_vars

\* Close has returned, and an expired entry stays in the map.
C8_Witness ==
  /\ obs.closed[0]
  /\ sw[0].pc = "exited"
  /\ Exists(0, "a")
  /\ isExpired(EntryOf(0, "a"), clock)

\* C9: a second Close does not abort the process.
C9_SecondCloseSafe == panic # "close of closed channel"

\* C10: each locked section of InvalidateAll leaves its shard's map empty;
\* when InvalidateAll returns, every key that was present at the call and
\* was not inserted since has no entry in any map; and until a later put
\* inserts such a key it has no entry, and a get of it called after
\* InvalidateAll returned returns NotFound.
C10_InvalidateAll ==
  [][/\ \A p \in Procs :
          (\/ pc[p] = "idle" /\ pc'[p] = "invalidate_all"
           \/ pc[p] = "idle" /\ ret'.op = "invalidate_all" /\ ret'.proc = p
           \/ pc[p] = "invalidate_all" /\ loc'[p] # loc[p])
            => Present(data', IF pc[p] = "idle" THEN 0 ELSE loc[p].shard) = {}
     /\ ret'.op = "invalidate_all"
          => \A k \in ret'.watch : \A s \in Shards : data'[s][k] = 0
     /\ \A k \in obs'.cleared : \A s \in Shards : data'[s][k] = 0
     /\ (ret'.op = "get" /\ ret'.watch # {})
          => (ret'.err = "NotFound" /\ ret'.val = NoVal)]_vars

\* InvalidateAll emptied both shards of a router, and a get of a key that
\* was present before returned NotFound.
C10_Witness ==
  /\ ret.op = "get"
  /\ ret.watch = {ret.key}
  /\ ret.err = "NotFound"
  /\ Sharded

\* The shard of key k: hash(k) mod S, in 0..S-1.
Home(k) == cfg.HashCodeFunc[k] % NumShards(cfg)

Stepped(p) == pc'[p] # pc[p] \/ loc'[p] # loc[p] \/ ret'.proc = p

\* C11: on a router, a key has an entry only in shard hash(key) mod S; a
\* get or put of key k works on that shard on every step and leaves the
\* maps of all other shards unchanged, and so does the handling of each key
\* passed to invalidate.
C11_RoutedToOneShard ==
  [][/\ \A s \in Shards, k \in AllKeys : data'[s][k] # 0 => s = Home(k)
     /\ \A p \in Procs :
          (Stepped(p) /\ loc[p].op \in {"get", "put"})
            => /\ loc[p].shard = Home(loc[p].key)
               /\ \A s \in Shards \ {Home(loc[p].key)} : data'[s] = data[s]
     /\ \A p \in Procs :
          (Stepped(p) /\ loc'[p].op \in {"get", "put"})
            => /\ loc'[p].shard = Home(loc'[p].key)
               /\ \A s \in Shards \ {Home(loc'[p].key)} : data'[s] = data[s]
     /\ \A p \in Procs :
          (pc[p] = "invalidate" /\ Stepped(p) /\ panic' = NoVal)
            => \A s \in Shards \ {Home(loc[p].keys[1])} : data'[s] = data[s]
     /\ ret'.op = "invalidate"
          => \A s \in Shards \ {Home(ret'.key)} : data'[s] = data[s]]_vars

\* Both shards of a router hold the key that hashes to them.
C11_Witness ==
  /\ Sharded
  /\ \E k1, k2 \in AllKeys :
       /\ Home(k1) = 0 /\ data[0][k1] # 0
       /\ Home(k2) = 1 /\ data[1][k2] # 0

\* C18: no call of a router aborts on the index hash(key) mod S.
C18_RoutingNeverFails == panic # "index out of range"

\* Where a get stands from the loader call to the insertion of the loaded entry.
LoadPath == {"load_call", "ip_size", "ip_insert"}

\* C12: while a get is between its loader call and the insertion of the
\* loaded entry, it holds the write lock of the engine, no other caller is
\* in a loader call, the background goroutine is not scanning, only the
\* loading get changes the map, and the only steps other callers take are
\* those of Get that work on an entry already read (isExpired, lastRead).
C12_LoaderExclusive ==
  [][\A p \in Procs :
       (pc[p] \in LoadPath /\ loc[p].op = "get")
         => /\ lock[loc[p].shard] = p
            /\ sw[loc[p].shard].pc # "scan"
            /\ data' # data => Stepped(p)
            /\ \A q \in Procs \ {p} :
                 /\ pc[q] # "load_call"
                 /\ Stepped(q) => pc[q] \in {"get_check", "get_touch"}]_vars

\* A loader runs for one key while a get of another key waits in load.
C12_Witness ==
  \E p, q \in Procs :
    /\ pc[p] = "load_call"
    /\ pc[q] = "load"
    /\ loc[q].key # loc[p].key

\* C13: an eviction removes the entry and then starts one notification
\* {key, evicted value, reason} for every registered listener, after the
\* notifications of the eviction before it are over; each listener takes
\* its notification once; and until the last listener has returned the
\* evicting operation holds the write lock, the map does not change, and
\* the only steps other callers take are those of Get on an entry already
\* read.
C13_EvictThenNotify ==
  [][\A s \in Shards :
       /\ stats'[s].evictions # stats[s].evictions
            => /\ stats'[s].evictions = stats[s].evictions + 1
               /\ fan[s].pending = {}
               /\ fan'[s].pending = cfg.RemovalListeners
               /\ fan'[s].reason \in {"REPLACED", "EXPIRED", "SIZE"}
               /\ data[s][fan'[s].key] # 0
               /\ data'[s][fan'[s].key] = 0
               /\ fan'[s].value = EntryOf(s, fan'[s].key).value
               /\ lock'[s] = fan'[s].by
       /\ (fan'[s] # fan[s] /\ stats'[s].evictions = stats[s].evictions)
            => /\ \E l \in fan[s].pending : fan'[s].pending = fan[s].pending \ {l}
               /\ fan'[s].pending # {}
                    => fan'[s] = [fan[s] EXCEPT !.pending = fan'[s].pending]
               /\ UNCHANGED <<data, lock, pc>>
       /\ fan[s].pending # {}
            => /\ lock[s] = fan[s].by
               /\ data'[s] = data[s]
               /\ \A q \in Procs \ {fan[s].by} :
                    Stepped(q) => pc[q] \in {"get_check", "get_touch"}]_vars

\* An entry was evicted for its size and one of two listeners has returned.
C13_Witness ==
  /\ fan[0].reason = "SIZE"
  /\ fan[0].pending = {"l2"}
  /\ lock[0] = fan[0].by
  /\ ~Exists(0, fan[0].key)

\* C14: an eviction with reason Expired removes an entry that is expired
\* at the moment of the removal.
C14_OnlyExpiredEvicted ==
  [][\A s \in Shards :
       (stats'[s].evictions # stats[s].evictions /\ fan'[s].reason = "EXPIRED")
         => isExpired(EntryOf(s, fan'[s].key), clock)]_vars

InvalidateBy(p) ==
  Stepped(p) /\ (pc[p] = "invalidate" \/ pc'[p] = "invalidate" \/ ret'.op = "invalidate")

InvalidateAllBy(p) ==
  Stepped(p)
    /\ (pc[p] = "invalidate_all" \/ pc'[p] = "invalidate_all" \/ ret'.op = "invalidate_all")

ExpiredNow(e) ==
  \/ cfg.ExpireAfterRead > 0 /\ clock - e.lastRead > cfg.ExpireAfterRead
  \/ cfg.ExpireAfterWrite > 0 /\ clock - e.lastWrite > cfg.ExpireAfterWrite

\* C16: a sweep holds the write lock from its first visit to its end and
\* visits every key that was in the map when it began; a visit evicts the
\* entry if it is expired at that time and else changes nothing, and nothing
\* else changes the map or an entry's value during the sweep; so when a
\* sweep ends at the clock time it began at, no expired entry is in the map
\* and the entries that are not expired are as they were.
C16_SweepEvictsExpired ==
  [][\A s \in Shards :
       sw[s].pc = "scan"
         => /\ lock[s] = Sweeper
            /\ \A k \in AllKeys :
                 data'[s][k] # 0
                   => /\ data'[s][k] = data[s][k]
                      /\ heap'[k][data'[s][k]].value = heap[k][data[s][k]].value
                      /\ heap'[k][data'[s][k]].lastWrite = heap[k][data[s][k]].lastWrite
            /\ sw'[s].todo = sw[s].todo => data'[s] = data[s]
            /\ sw'[s].todo # sw[s].todo
                 => \E k \in sw[s].todo :
                      /\ sw'[s].todo = sw[s].todo \ {k}
                      /\ IF ExpiredNow(EntryOf(s, k))
                         THEN /\ data' = Removed(data, s, {k})
                              /\ stats'[s].evictions = stats[s].evictions + 1
                         ELSE data' = data /\ stats' = stats
            /\ sw'[s].pc # "scan"
                 => /\ sw[s].todo = {}
                    /\ lock'[s] = Free
                    /\ obs.sweepAt[s] = clock
                         => \A k \in Present(data', s) : ~ExpiredNow(EntryOf(s, k))]_vars

\* A sweep has visited two entries without the clock moving: it evicted the
\* expired one and kept the other.
C16_Witness ==
  /\ sw[0].pc = "scan"
  /\ sw[0].todo = {}
  /\ obs.sweepAt[0] = clock
  /\ stats[0].evictions = 1
  /\ Cardinality(Present(data, 0)) = 1

\* C17: with ExpireAfterRead = D > 0 and no write expiry, an entry enters
\* the map with its last-read time at the present time; a get that finds an
\* entry goes on to a hit exactly when the clock is at most D past the entry's
\* last-read time, the hit sets the last-read time to the present time, and
\* otherwise the get evicts the key with reason Expired; and no entry is
\* evicted with reason Expired while the clock is at most D past its last read.
C17_ExpireAfterRead ==
  [][/\ \A k \in AllKeys :
          (data[0][k] = 0 /\ data'[0][k] # 0) => heap'[k][data'[0][k]].lastRead = clock
     /\ \A p \in Procs :
          /\ (pc[p] = "get_check" /\ pc'[p] # "get_check")
               => /\ pc'[p] \in {"get_touch", "get_evict"}
                  /\ pc'[p] = "get_touch"
                       <=> clock - heap[loc[p].key][loc[p].entry].lastRead <= cfg.ExpireAfterRead
          /\ (pc[p] = "get_touch" /\ pc'[p] # "get_touch")
               => /\ ret'.proc = p /\ ret'.op = "get" /\ ret'.err = "nil"
                  /\ ret'.val = loc[p].toReturn
                  /\ stats'[0].hits = stats[0].hits + 1
                  /\ data[0][loc[p].key] = loc[p].entry
                       => heap'[loc[p].key][loc[p].entry].lastRead = clock
          /\ (pc[p] = "get_evict" /\ pc'[p] # "get_evict")
               => /\ data'[0][loc[p].key] = 0
                  /\ data[0][loc[p].key] # 0 => fan'[0].reason = "EXPIRED"
     /\ (stats'[0].evictions # stats[0].evictions /\ fan'[0].reason = "EXPIRED")
          => clock - EntryOf(0, fan'[0].key).lastRead > cfg.ExpireAfterRead]_vars

\* The four counters a get may increment, summed.
GetCounters(st) == st.hits + st.misses + st.loadSuccess + st.loadError

\* The gets on engine s that have counted and not yet returned: those
\* inserting the value their loader returned.
CountedInFlight(s) ==
  {p \in Procs : loc[p].op = "get" /\ loc[p].shard = s /\ pc[p] \in {"ip_size", "ip_insert"}}

\* C19: on each engine hits + misses + load successes + load errors equals
\* the number of completed gets plus the gets that have counted a load
\* success and are still inserting; a step changes these counters only by
\* adding one to one of them, and only as a step of a get; steps of put,
\* invalidate, invalidate_all and of the sweeper leave all four unchanged.
C19_OneCounterPerGet ==
  [][\A s \in Shards :
       /\ GetCounters(stats'[s]) = obs'.gets[s] + Cardinality(CountedInFlight(s)')
       /\ <<stats'[s].hits, stats'[s].misses, stats'[s].loadSuccess, stats'[s].loadError>>
            # <<stats[s].hits, stats[s].misses, stats[s].loadSuccess, stats[s].loadError>>
            => /\ GetCounters(stats'[s]) = GetCounters(stats[s]) + 1
               /\ stats'[s].hits >= stats[s].hits /\ stats'[s].misses >= stats[s].misses
               /\ stats'[s].loadSuccess >= stats[s].loadSuccess
               /\ stats'[s].loadError >= stats[s].loadError
               /\ \E p \in Procs : loc[p].op = "get" /\ loc[p].shard = s /\ Stepped(p)]_vars

\* Three gets have completed, on a hit, on a load success and on a load
\* error, and nothing is in flight.
C19_Witness ==
  /\ \A p \in Procs : pc[p] = "idle"
  /\ obs.gets[0] = 3
  /\ stats[0].hits = 1 /\ stats[0].loadSuccess = 1 /\ stats[0].loadError = 1

\* C20: with loaders and listeners that return, under fair scheduling and
\* unless a second Close has aborted the process, every call a goroutine is
\* in returns, the write lock is always released again, a sweep that waits
\* for the lock or holds it comes to its end, and so a Close that waits
\* for the background goroutine returns.
C20_CallsReturn ==
  /\ \A p \in Procs : (pc[p] # "idle") ~> (pc[p] = "idle" \/ panic # NoVal)
  /\ (lock[0] # Free) ~> (lock[0] = Free \/ panic # NoVal)
  /\ (sw[0].pc \in {"lock", "scan"}) ~> (sw[0].pc \in {"select", "exited"} \/ panic # NoVal)

\* Close waits for the background goroutine, which waits for the lock that
\* a get holds while its loader runs.
C20_Witness ==
  /\ \E p \in Procs : pc[p] = "close_wait"
  /\ sw[0].pc = "lock"
  /\ \E q \in Procs : pc[q] = "load_call" /\ lock[0] = q

====
